---- MODULE Spec2Model ----
(***************************************************************************)
(* A model of jsonparser.py: the grammar compiler grammar(), the memo      *)
(* decorator and the PEG matcher parse() with its two inner functions      *)
(* parse_sequence and parse_atom.                                          *)
(*                                                                         *)
(* Representation.  A Python str is a sequence of one-character strings.   *)
(* A Python value that may be None is a sequence of length 0 (None) or 1   *)
(* (the value).  A parse tree is a record: a leaf holds the captured       *)
(* token, a node holds the list [atom] + children.                         *)
(***************************************************************************)
EXTENDS Integers, Sequences, FiniteSets, TLC

None == <<>>
Some(x) == <<x>>

(***************************************************************************)
(* str methods used by the source                                          *)
(***************************************************************************)
IsSpace(c) == c \in {" ", "\t", "\n"}

SetMin(S) == CHOOSE x \in S : \A y \in S : x <= y
SetMax(S) == CHOOSE x \in S : \A y \in S : x >= y

\* str.strip()
Strip(s) ==
  LET idx == {i \in 1..Len(s) : ~IsSpace(s[i])}
  IN  IF idx = {} THEN <<>> ELSE SubSeq(s, SetMin(idx), SetMax(idx))

\* str.replace('\t', ' ')
ReplaceTabs(s) == [i \in 1..Len(s) |-> IF s[i] = "\t" THEN " " ELSE s[i]]

\* the positions at which sep occurs in s
Occurrences(s, sep) ==
  {p \in 1..(Len(s) - Len(sep) + 1) : SubSeq(s, p, p + Len(sep) - 1) = sep}

\* str.split(sep, maxsplit) for a separator that is not None
RECURSIVE StrSplitSep(_, _, _)
StrSplitSep(s, sep, maxsplit) ==
  IF maxsplit = 0 \/ Occurrences(s, sep) = {}
  THEN <<s>>
  ELSE LET p == SetMin(Occurrences(s, sep))
       IN  <<SubSeq(s, 1, p - 1)>>
             \o StrSplitSep(SubSeq(s, p + Len(sep), Len(s)), sep, maxsplit - 1)

\* str.split(None): split on runs of whitespace, no empty pieces
RECURSIVE StrSplitWs(_)
StrSplitWs(s) ==
  LET body == {i \in 1..Len(s) : ~IsSpace(s[i])}
  IN  IF body = {} THEN <<>>
      ELSE LET b == SetMin(body)
               gaps == {i \in b..Len(s) : IsSpace(s[i])}
               e == IF gaps = {} THEN Len(s) + 1 ELSE SetMin(gaps)
           IN  <<SubSeq(s, b, e - 1)>> \o StrSplitWs(SubSeq(s, e, Len(s)))

StrSplit(s, sep, maxsplit) ==
  IF sep = None THEN StrSplitWs(s) ELSE StrSplitSep(s, sep, maxsplit)

NonEmpty(t) == t # <<>>

\* split(text, sep, maxsplit): the pieces that are non-empty BEFORE they are
\* stripped, each stripped
split(text, sep, maxsplit) ==
  LET pieces == SelectSeq(StrSplit(Strip(text), sep, maxsplit), NonEmpty)
  IN  [i \in 1..Len(pieces) |-> Strip(pieces[i])]

(***************************************************************************)
(* grammar(description, whitespace)                                        *)
(***************************************************************************)
WsKey == <<" ">>
Arrow == <<" ", "=", ">", " ">>
Bar == <<" ", "|", " ">>
Newline == <<"\n">>

\* a slip: the right-hand side is not split at ' | '
AlternativesUnsplit(rhs) == <<split(rhs, None, -1)>>

\* tuple(map(split, alternatives))
Alternatives(rhs) ==
  LET alternatives == split(rhs, Bar, -1)
  IN  [i \in 1..Len(alternatives) |-> split(alternatives[i], None, -1)]

\* the loop over the lines; err is the ValueError of the unpacking
\* "lhs, rhs = ..." when the line does not split in two
RECURSIVE GrammarLines(_, _, _)
GrammarLines(lines, k, G) ==
  IF k > Len(lines) THEN [err |-> FALSE, G |-> G]
  ELSE LET parts == split(lines[k], Arrow, 1)
       IN  IF Len(parts) # 2 THEN [err |-> TRUE, G |-> G]
           ELSE LET lhs == parts[1]
                    rhs == parts[2]
                    G2 == [key \in DOMAIN G \cup {lhs} |->
                             IF key = lhs THEN Alternatives(rhs) ELSE G[key]]
                IN  GrammarLines(lines, k + 1, G2)

grammar(description, whitespace) ==
  LET G == [key \in {WsKey} |-> whitespace]
      d == ReplaceTabs(description)
  IN  GrammarLines(split(d, Newline, -1), 1, G)

(***************************************************************************)
(* re.match(pattern, text) for the patterns the model uses: literal        *)
(* characters, \s, \x (escaped character), '.', one capturing group and    *)
(* the greedy quantifiers * + ? on a single character, with backtracking.  *)
(***************************************************************************)
\* length of the single-character expression at p[k]
BaseLen(p, k) == IF p[k] = "\\" THEN 2 ELSE 1

\* does the single-character expression at p[k] match character c
BaseMatches(p, k, c) ==
  IF p[k] = "\\"
  THEN IF p[k + 1] = "s" THEN IsSpace(c) ELSE c = p[k + 1]
  ELSE IF p[k] = "." THEN c # "\n" ELSE c = p[k]

Quantifier(p, k) ==
  LET q == k + BaseLen(p, k)
  IN  IF q <= Len(p) /\ p[q] \in {"*", "+", "?"} THEN p[q] ELSE ""

\* the match object: start and end of group 1 and m.end(), as the number of
\* characters of the text before each position
RECURSIVE ReMatchAt(_, _, _, _)
RECURSIVE ReStar(_, _, _, _)
ReStar(p, k, t, i) ==
  LET next == k + BaseLen(p, k) + 1
  IN  IF i < Len(t) /\ BaseMatches(p, k, t[i + 1])
      THEN LET r == ReStar(p, k, t, i + 1)
           IN  IF r # None THEN r ELSE ReMatchAt(p, next, t, i)
      ELSE ReMatchAt(p, next, t, i)

ReMatchAt(p, k, t, i) ==
  IF k > Len(p) THEN Some([gs |-> 0, ge |-> 0, end |-> i])
  ELSE IF p[k] = "("
  THEN LET r == ReMatchAt(p, k + 1, t, i)
       IN  IF r = None THEN None ELSE Some([r[1] EXCEPT !.gs = i])
  ELSE IF p[k] = ")"
  THEN LET r == ReMatchAt(p, k + 1, t, i)
       IN  IF r = None THEN None ELSE Some([r[1] EXCEPT !.ge = i])
  ELSE LET q == Quantifier(p, k)
           hit == i < Len(t) /\ BaseMatches(p, k, t[i + 1])
           next == k + BaseLen(p, k) + (IF q = "" THEN 0 ELSE 1)
       IN  CASE q = "" -> IF hit THEN ReMatchAt(p, next, t, i + 1) ELSE None
             [] q = "*" -> ReStar(p, k, t, i)
             [] q = "+" -> IF hit THEN ReStar(p, k, t, i + 1) ELSE None
             [] q = "?" -> IF hit
                           THEN LET r == ReMatchAt(p, next, t, i + 1)
                                IN  IF r # None THEN r
                                    ELSE ReMatchAt(p, next, t, i)
                           ELSE ReMatchAt(p, next, t, i)

ReMatch(pattern, text) == ReMatchAt(pattern, 1, text, 0)

(***************************************************************************)
(* Values of the matcher                                                   *)
(***************************************************************************)
\* a str in a tree, and a Python list of trees
Leaf(s) == [kind |-> "str", str |-> s, items |-> <<>>]
PyList(xs) == [kind |-> "list", str |-> <<>>, items |-> xs]

Pair(tree, rem) == [tree |-> tree, rem |-> rem]

\* Fail = (None, None)
Fail == Pair(None, None)

\* tokenizer = grammar[' '] + '(%s)'
Tokenizer(G) == G[WsKey] \o <<"(", "%", "s", ")">>

\* tokenizer % atom
Format(fmt, atom) ==
  LET p == SetMin(Occurrences(fmt, <<"%", "s">>))
  IN  SubSeq(fmt, 1, p - 1) \o atom \o SubSeq(fmt, p + 2, Len(fmt))

\* a slip: m.group(0), the whole match, instead of m.group(1)
MatchTerminalGroup0(G, atom, text) ==
  LET m == ReMatch(Format(Tokenizer(G), atom), text)
  IN  IF m = None THEN Fail
      ELSE Pair(Some(Leaf(SubSeq(text, 1, m[1].end))),
                Some(SubSeq(text, m[1].end + 1, Len(text))))

\* the terminal branch of parse_atom
MatchTerminal(G, atom, text) ==
  LET m == ReMatch(Format(Tokenizer(G), atom), text)
  IN  IF m = None THEN Fail
      ELSE Pair(Some(Leaf(SubSeq(text, m[1].gs + 1, m[1].ge))),
                Some(SubSeq(text, m[1].end + 1, Len(text))))

\* a slip: tree, rem without the symbol in front
WrapNoHead(atom, r) == Pair(Some(PyList(r.tree[1].items)), r.rem)

\* [atom] + tree, rem
Wrap(atom, r) ==
  Pair(Some(PyList(<<Leaf(atom)>> \o r.tree[1].items)), r.rem)

(***************************************************************************)
(* parse_sequence and parse_atom as the source defines them, without the   *)
(* memo wrapper                                                            *)
(***************************************************************************)
RECURSIVE parse_atom(_, _, _)
RECURSIVE parse_sequence(_, _, _, _, _)
RECURSIVE parse_alternatives(_, _, _, _)

\* the for loop of parse_sequence from atom number k on, result so far given
parse_sequence(G, sequence, k, text, result) ==
  IF k > Len(sequence) THEN Pair(Some(PyList(result)), Some(text))
  ELSE LET r == parse_atom(G, sequence[k], text)
       IN  IF r.rem = None THEN Fail
           ELSE parse_sequence(G, sequence, k + 1, r.rem[1],
                               Append(result, r.tree[1]))

\* the for loop of parse_atom over the alternatives from number k on
parse_alternatives(G, atom, k, text) ==
  IF k > Len(G[atom]) THEN Fail
  ELSE LET r == parse_sequence(G, G[atom][k], 1, text, <<>>)
       IN  IF r.rem # None THEN Wrap(atom, r)
           ELSE parse_alternatives(G, atom, k + 1, text)

parse_atom(G, atom, text) ==
  IF atom \in DOMAIN G
  THEN parse_alternatives(G, atom, 1, text)
  ELSE MatchTerminal(G, atom, text)

(***************************************************************************)
(* Grammar descriptions and texts the model runs the program on            *)
(***************************************************************************)
MaxLen == 3
MaxCalls == 3
MaxLenCalls == 2
MaxLenLive == 2
MaxBlank == 2

\* value => "a" | "b"
DescQuoted ==
  <<"v", "a", "l", "u", "e", " ", "=", ">", " ", "\"", "a", "\"", " ", "|",
    " ", "\"", "b", "\"">>
\* E => T | T b E / T => a
DescChoice ==
  <<"E", " ", "=", ">", " ", "T", " ", "|", " ", "T", " ", "b", " ", "E",
    "\n", "T", " ", "=", ">", " ", "a">>
\* E => T b E | T / T => a
DescLongest ==
  <<"E", " ", "=", ">", " ", "T", " ", "b", " ", "E", " ", "|", " ", "T",
    "\n", "T", " ", "=", ">", " ", "a">>
\* elements => value , elements | value / value => a | b
DescList ==
  <<"e", "l", "e", "m", "e", "n", "t", "s", " ", "=", ">", " ", "v", "a",
    "l", "u", "e", " ", ",", " ", "e", "l", "e", "m", "e", "n", "t", "s",
    " ", "|", " ", "v", "a", "l", "u", "e", "\n", "v", "a", "l", "u", "e",
    " ", "=", ">", " ", "a", " ", "|", " ", "b">>
\* E => E b T | T / T => a
DescLeftRec ==
  <<"E", " ", "=", ">", " ", "E", " ", "b", " ", "T", " ", "|", " ", "T",
    "\n", "T", " ", "=", ">", " ", "a">>
\* A => B a | a / B => A b
DescIndirect ==
  <<"A", " ", "=", ">", " ", "B", " ", "a", " ", "|", " ", "a", "\n", "B",
    " ", "=", ">", " ", "A", " ", "b">>
\* E => x* E | y
DescNullable ==
  <<"E", " ", "=", ">", " ", "x", "*", " ", "E", " ", "|", " ", "y">>
\* v => . a | .
DescDot ==
  <<"v", " ", "=", ">", " ", ".", " ", "a", " ", "|", " ", ".">>
\* E => T b | T / T => a
DescTa ==
  <<"E", " ", "=", ">", " ", "T", " ", "b", " ", "|", " ", "T", "\n", "T",
    " ", "=", ">", " ", "a">>
\* E => T b | T / T => b
DescTb ==
  <<"E", " ", "=", ">", " ", "T", " ", "b", " ", "|", " ", "T", "\n", "T",
    " ", "=", ">", " ", "b">>
\* pair => a : a
DescPair ==
  <<"p", "a", "i", "r", " ", "=", ">", " ", "a", " ", ":", " ", "a">>
\* E => a a E | a
DescTwice ==
  <<"E", " ", "=", ">", " ", "a", " ", "a", " ", "E", " ", "|", " ", "a">>

value == <<"v", "a", "l", "u", "e">>
elements == <<"e", "l", "e", "m", "e", "n", "t", "s">>

\* the default of the parameter whitespace: \s*
WsDefault == <<"\\", "s", "*">>
\* whitespace='' disallows whitespace between tokens
WsNone == <<>>

\* a description, the whitespace pattern, and the texts tried on the
\* grammar: all over the alphabet up to length n
Input(d, ws, alphabet, n) == [d |-> d, ws |-> ws, alphabet |-> alphabet, n |-> n]

InputsUpTo(n) ==
  { Input(DescQuoted, WsDefault, {"a", "b", "c", "\""}, n + 1),
    Input(DescChoice, WsDefault, {"a", "b", " "}, n),
    Input(DescLongest, WsDefault, {"a", "b", " "}, n),
    Input(DescLongest, WsNone, {"a", "b", " "}, n),
    Input(DescList, WsDefault, {"a", ","}, n + 2),
    Input(DescLeftRec, WsDefault, {"a", "b"}, n),
    Input(DescIndirect, WsDefault, {"a", "b"}, n),
    Input(DescNullable, WsDefault, {"x", "y", " "}, n),
    Input(DescDot, WsDefault, {"a", " "}, n),
    Input(DescPair, WsDefault, {"a", ":"}, n),
    Input(DescTwice, WsDefault, {"a"}, n) }

Inputs == InputsUpTo(MaxLen)

\* the same grammars on shorter texts, for the runs checked for termination
LiveInputs == InputsUpTo(MaxLenLive)

\* the inputs of the runs with several parse calls: two grammars that
\* give the symbol T different rules
FewInputs ==
  { Input(DescTa, WsDefault, {"a", "b"}, MaxLenCalls),
    Input(DescTb, WsDefault, {"a", "b"}, MaxLenCalls) }

TextsUpTo(alphabet, n) == UNION {[1..k -> alphabet] : k \in 0..n}

(***************************************************************************)
(* The program state                                                       *)
(***************************************************************************)
VARIABLES
  base,         \* the description before blank lines were inserted
  description,  \* the description passed to grammar()
  compiled,     \* what grammar() returned or that it raised; None before
  mode,         \* "idle", "call", "alt", "seq", "ret", "done", "diverge"
  start,        \* parse's argument start_symbol
  text,         \* parse's argument text
  arg,          \* the arguments of the call of parse_atom being made
  stack,        \* the frames of parse_atom and parse_sequence
  ret,          \* the value being returned
  from,         \* the call that returned it
  cache,        \* the dict of memo
  runs,         \* how often parse_atom's body ran per key, and its result
  calls,        \* the number of parse calls so far
  first,        \* the first parse call and what it returned
  result        \* what the last parse call returned

vars == <<base, description, compiled, mode, start, text, arg, stack, ret,
          from, cache, runs, calls, first, result>>

G == compiled[1].G

NoArg == [atom |-> <<>>, text |-> <<>>]
NoCall == [fn |-> "", atom |-> <<>>, text |-> <<>>, hit |-> FALSE, epoch |-> 0]
Empty == [key \in {} |-> 0]

AtomFrame(atom, t) ==
  [fn |-> "parse_atom", atom |-> atom, sequence |-> <<>>, text |-> t,
   k |-> 1, result |-> <<>>]
SeqFrame(sequence, t) ==
  [fn |-> "parse_sequence", atom |-> <<>>, sequence |-> sequence, text |-> t,
   k |-> 1, result |-> <<>>]

Top == stack[Len(stack)]
Pop == SubSeq(stack, 1, Len(stack) - 1)
SetTop(f) == [stack EXCEPT ![Len(stack)] = f]

\* a slip: the text is left out of the key
KeyAtomOnly(a) == <<a.atom, <<>>>>

\* args of _f(*args)
Key(a) == <<a.atom, a.text>>

\* a call of parse_atom with this key has not returned yet
Pending(key) ==
  \E i \in 1..Len(stack) :
    stack[i].fn = "parse_atom" /\ <<stack[i].atom, stack[i].text>> = key

\* a slip: the result is not stored
StoreNothing(c, key, r, n) == c

\* cache[args] = result; the entry carries the number of the parse call
\* that wrote it
Store(c, key, r, n) ==
  [x \in DOMAIN c \cup {key} |->
     IF x = key THEN [val |-> r, epoch |-> n] ELSE c[x]]

\* bookkeeping: the body of parse_atom starts, and returns r, for key
Started(rs, key) ==
  [x \in DOMAIN rs \cup {key} |->
     IF x = key
     THEN IF key \in DOMAIN rs THEN [rs[key] EXCEPT !.n = @ + 1]
          ELSE [n |-> 1, val |-> None]
     ELSE rs[x]]
Returned(rs, key, r) ==
  [rs EXCEPT ![key] = IF @.val = None THEN [@ EXCEPT !.val = Some(r)] ELSE @]

Init ==
  /\ base = <<>>
  /\ description = <<>>
  /\ compiled = None
  /\ mode = "idle"
  /\ start = <<>>
  /\ text = <<>>
  /\ arg = NoArg
  /\ stack = <<>>
  /\ ret = Fail
  /\ from = NoCall
  /\ cache = Empty
  /\ runs = Empty
  /\ calls = 0
  /\ first = None
  /\ result = None

(***************************************************************************)
(* grammar(description, whitespace) is called                              *)
(***************************************************************************)
GrammarCall(b, d, ws, limit) ==
  /\ mode \in {"idle", "done"}
  /\ calls < limit
  /\ base' = b
  /\ description' = d
  /\ compiled' = Some(grammar(d, ws))
  /\ mode' = "idle"
  /\ result' = None
  /\ UNCHANGED <<start, text, arg, stack, ret, from, cache, runs, calls, first>>

(***************************************************************************)
(* parse(start_symbol, text, grammar)                                      *)
(***************************************************************************)
\* a slip: one dict for all calls, as when parse_atom is decorated once
memoShared(old) == old

\* "@memo" on the inner def parse_atom runs once per call of parse: memo's
\* "cache = {}" makes the dict of this call, whatever an earlier one held
memo(old) == Empty

\* parse is entered; its body is the call parse_atom(start_symbol, text)
ParseCall(s, t, limit) ==
  /\ mode \in {"idle", "done"}
  /\ compiled # None
  /\ ~compiled[1].err
  /\ calls < limit
  /\ calls' = calls + 1
  /\ start' = s
  /\ text' = t
  /\ cache' = memo(cache)
  /\ runs' = Empty
  /\ stack' = <<>>
  /\ arg' = [atom |-> s, text |-> t]
  /\ mode' = "call"
  /\ ret' = Fail
  /\ from' = NoCall
  /\ result' = None
  /\ UNCHANGED <<base, description, compiled, first>>

\* _f: "return cache[args]".  args is a pair of str, which is hashable: the
\* "except TypeError" branch of _f is never taken
MemoHit ==
  /\ mode = "call"
  /\ Key(arg) \in DOMAIN cache
  /\ ret' = cache[Key(arg)].val
  /\ from' = [fn |-> "parse_atom", atom |-> arg.atom, text |-> arg.text,
              hit |-> TRUE, epoch |-> cache[Key(arg)].epoch]
  /\ mode' = "ret"
  /\ arg' = NoArg
  /\ UNCHANGED <<base, description, compiled, start, text, stack, cache, runs,
                 calls, first, result>>

\* _f: KeyError, the body runs; atom is a terminal: the match, stored
Terminal ==
  /\ mode = "call"
  /\ Key(arg) \notin DOMAIN cache
  /\ arg.atom \notin DOMAIN G
  /\ LET r == MatchTerminal(G, arg.atom, arg.text)
     IN  /\ ret' = r
         /\ cache' = Store(cache, Key(arg), r, calls)
         /\ runs' = Returned(Started(runs, Key(arg)), Key(arg), r)
  /\ from' = [fn |-> "parse_atom", atom |-> arg.atom, text |-> arg.text,
              hit |-> FALSE, epoch |-> calls]
  /\ mode' = "ret"
  /\ arg' = NoArg
  /\ UNCHANGED <<base, description, compiled, start, text, stack, calls,
                 first, result>>

\* _f: KeyError, the body runs; atom is a non-terminal: the loop over its
\* alternatives starts.  When a call with the same arguments has not
\* returned, nothing is in the cache for it (an entry is written after the
\* body returns), the body runs again and comes back to this same call:
\* the recursion has no end.
NonTerminal ==
  /\ mode = "call"
  /\ Key(arg) \notin DOMAIN cache
  /\ arg.atom \in DOMAIN G
  /\ runs' = Started(runs, Key(arg))
  /\ IF Pending(Key(arg))
     THEN /\ mode' = "diverge"
          /\ UNCHANGED stack
     ELSE /\ mode' = "alt"
          /\ stack' = Append(stack, AtomFrame(arg.atom, arg.text))
  /\ arg' = NoArg
  /\ UNCHANGED <<base, description, compiled, start, text, ret, from, cache,
                 calls, first, result>>

\* a slip: the alternatives are tried from the last to the first
TryAlternativeReversed ==
  /\ mode = "alt"
  /\ Top.k <= Len(G[Top.atom])
  /\ stack' = Append(stack, SeqFrame(G[Top.atom][Len(G[Top.atom]) + 1 - Top.k],
                                     Top.text))
  /\ mode' = "seq"
  /\ UNCHANGED <<base, description, compiled, start, text, arg, ret, from,
                 cache, runs, calls, first, result>>

\* parse_atom: "tree, rem = parse_sequence(alternative, text)" is called
TryAlternative ==
  /\ mode = "alt"
  /\ Top.k <= Len(G[Top.atom])
  /\ stack' = Append(stack, SeqFrame(G[Top.atom][Top.k], Top.text))
  /\ mode' = "seq"
  /\ UNCHANGED <<base, description, compiled, start, text, arg, ret, from,
                 cache, runs, calls, first, result>>

\* parse_atom: the loop is over, "return Fail"; _f stores it
NoAlternative ==
  /\ mode = "alt"
  /\ Top.k > Len(G[Top.atom])
  /\ LET key == <<Top.atom, Top.text>>
     IN  /\ cache' = Store(cache, key, Fail, calls)
         /\ runs' = Returned(runs, key, Fail)
         /\ from' = [fn |-> "parse_atom", atom |-> Top.atom,
                     text |-> Top.text, hit |-> FALSE, epoch |-> calls]
  /\ ret' = Fail
  /\ stack' = Pop
  /\ mode' = "ret"
  /\ UNCHANGED <<base, description, compiled, start, text, arg, calls, first,
                 result>>

\* parse_sequence: "tree, text = parse_atom(atom, text)" is called
SequenceAtom ==
  /\ mode = "seq"
  /\ Top.k <= Len(Top.sequence)
  /\ arg' = [atom |-> Top.sequence[Top.k], text |-> Top.text]
  /\ mode' = "call"
  /\ UNCHANGED <<base, description, compiled, start, text, stack, ret, from,
                 cache, runs, calls, first, result>>

\* parse_sequence: the loop is over, "return result, text"
SequenceDone ==
  /\ mode = "seq"
  /\ Top.k > Len(Top.sequence)
  /\ ret' = Pair(Some(PyList(Top.result)), Some(Top.text))
  /\ from' = [NoCall EXCEPT !.fn = "parse_sequence"]
  /\ stack' = Pop
  /\ mode' = "ret"
  /\ UNCHANGED <<base, description, compiled, start, text, arg, cache, runs,
                 calls, first, result>>

\* a slip: the failed sequence returns its result so far, with text None
SequenceFailPartial ==
  /\ mode = "ret"
  /\ stack # <<>>
  /\ Top.fn = "parse_sequence"
  /\ ret.rem = None
  /\ ret' = Pair(Some(PyList(Top.result)), None)
  /\ from' = [NoCall EXCEPT !.fn = "parse_sequence"]
  /\ stack' = Pop
  /\ UNCHANGED <<base, description, compiled, mode, start, text, arg, cache,
                 runs, calls, first, result>>

\* parse_sequence: parse_atom returned and "if text is None: return Fail"
SequenceFail ==
  /\ mode = "ret"
  /\ stack # <<>>
  /\ Top.fn = "parse_sequence"
  /\ ret.rem = None
  /\ ret' = Fail
  /\ from' = [NoCall EXCEPT !.fn = "parse_sequence"]
  /\ stack' = Pop
  /\ UNCHANGED <<base, description, compiled, mode, start, text, arg, cache,
                 runs, calls, first, result>>

\* a slip: the remainder is not passed on to the next atom
SequenceAppendSameText ==
  /\ mode = "ret"
  /\ stack # <<>>
  /\ Top.fn = "parse_sequence"
  /\ ret.rem # None
  /\ stack' = SetTop([Top EXCEPT !.result = Append(@, ret.tree[1]),
                                 !.k = @ + 1])
  /\ mode' = "seq"
  /\ ret' = Fail
  /\ from' = NoCall
  /\ UNCHANGED <<base, description, compiled, start, text, arg, cache, runs,
                 calls, first, result>>

\* parse_sequence: parse_atom returned a text: "result.append(tree)"
SequenceAppend ==
  /\ mode = "ret"
  /\ stack # <<>>
  /\ Top.fn = "parse_sequence"
  /\ ret.rem # None
  /\ stack' = SetTop([Top EXCEPT !.result = Append(@, ret.tree[1]),
                                 !.text = ret.rem[1],
                                 !.k = @ + 1])
  /\ mode' = "seq"
  /\ ret' = Fail
  /\ from' = NoCall
  /\ UNCHANGED <<base, description, compiled, start, text, arg, cache, runs,
                 calls, first, result>>

\* parse_atom: parse_sequence returned and "if rem is not None:
\* return [atom]+tree, rem"; _f stores it
AlternativeWins ==
  /\ mode = "ret"
  /\ stack # <<>>
  /\ Top.fn = "parse_atom"
  /\ ret.rem # None
  /\ LET key == <<Top.atom, Top.text>>
         r == Wrap(Top.atom, ret)
     IN  /\ ret' = r
         /\ cache' = Store(cache, key, r, calls)
         /\ runs' = Returned(runs, key, r)
         /\ from' = [fn |-> "parse_atom", atom |-> Top.atom,
                     text |-> Top.text, hit |-> FALSE, epoch |-> calls]
  /\ stack' = Pop
  /\ UNCHANGED <<base, description, compiled, mode, start, text, arg, calls,
                 first, result>>

\* parse_atom: parse_sequence returned Fail: the next alternative
AlternativeFails ==
  /\ mode = "ret"
  /\ stack # <<>>
  /\ Top.fn = "parse_atom"
  /\ ret.rem = None
  /\ stack' = SetTop([Top EXCEPT !.k = @ + 1])
  /\ mode' = "alt"
  /\ ret' = Fail
  /\ from' = NoCall
  /\ UNCHANGED <<base, description, compiled, start, text, arg, cache, runs,
                 calls, first, result>>

\* parse: "return parse_atom(start_symbol, text)"
ParseReturn ==
  /\ mode = "ret"
  /\ stack = <<>>
  /\ result' = Some(ret)
  /\ first' = IF first = None
              THEN Some([G |-> G, start |-> start, text |-> text, ret |-> ret])
              ELSE first
  /\ mode' = "done"
  /\ UNCHANGED <<base, description, compiled, start, text, arg, stack, ret,
                 from, cache, runs, calls>>

(***************************************************************************)
(* Specifications                                                          *)
(***************************************************************************)
\* the steps parse takes by itself once it is called
Run ==
  \/ MemoHit
  \/ Terminal
  \/ NonTerminal
  \/ TryAlternative
  \/ NoAlternative
  \/ SequenceAtom
  \/ SequenceDone
  \/ SequenceFail
  \/ SequenceAppend
  \/ AlternativeWins
  \/ AlternativeFails
  \/ ParseReturn

\* the symbols of the grammar in use, and the texts over its alphabet
Symbols ==
  IF compiled = None \/ compiled[1].err THEN {} ELSE DOMAIN G \ {WsKey}
TextsOf(ins) ==
  UNION {TextsUpTo(i.alphabet, i.n) : i \in {j \in ins : j.d = description}}

\* one parse call on any of the grammars
Next ==
  \/ \E i \in Inputs : GrammarCall(i.d, i.d, i.ws, 1)
  \/ \E s \in Symbols, t \in TextsOf(Inputs) :
       ParseCall(s, t, 1)
  \/ Run

Spec == Init /\ [][Next]_vars

\* the same on shorter texts, and a call that was made runs on: the program
\* is sequential, a step that can be taken is taken
LiveNext ==
  \/ \E i \in LiveInputs : GrammarCall(i.d, i.d, i.ws, 1)
  \/ \E s \in Symbols, t \in TextsOf(LiveInputs) : ParseCall(s, t, 1)
  \/ Run

LiveSpec == Init /\ [][LiveNext]_vars /\ WF_vars(Run)

\* several parse calls, on grammars that disagree on a symbol
CallsNext ==
  \/ \E i \in FewInputs : GrammarCall(i.d, i.d, i.ws, MaxCalls)
  \/ \E s \in Symbols, t \in TextsOf(FewInputs) : ParseCall(s, t, MaxCalls)
  \/ Run

CallsSpec == Init /\ [][CallsNext]_vars

\* the description d with one more line, blank, before its line number p
Join(lines) ==
  LET RECURSIVE J(_)
      J(k) == IF k > Len(lines) THEN <<>>
              ELSE IF k = Len(lines) THEN lines[k]
              ELSE lines[k] \o Newline \o J(k + 1)
  IN  J(1)

WithBlankLine(d) ==
  LET lines == StrSplitSep(d, Newline, -1)
  IN  { Join(SubSeq(lines, 1, p - 1) \o <<blank>> \o SubSeq(lines, p, Len(lines))) :
          p \in 1..(Len(lines) + 1), blank \in TextsUpTo({" ", "\t"}, MaxBlank) }

\* grammar() on descriptions with a blank line inserted
BlankNext ==
  \E i \in Inputs \cup FewInputs :
    \E d \in WithBlankLine(i.d) : GrammarCall(i.d, d, i.ws, 1)

BlankSpec == Init /\ [][BlankNext]_vars

(***************************************************************************)
(* Properties                                                              *)
(***************************************************************************)
\* parse_atom has just returned, from its body or from the cache
AtomReturned == mode = "ret" /\ from.fn = "parse_atom"
NonTerminalReturned == AtomReturned /\ from.atom \in DOMAIN G
TerminalReturned == AtomReturned /\ from.atom \notin DOMAIN G

\* what each alternative of the returned non-terminal does on its text
SequenceOf(k) == parse_sequence(G, G[from.atom][k], 1, from.text, <<>>)
Winners == {k \in 1..Len(G[from.atom]) : SequenceOf(k).rem # None}

\* C1: a non-terminal returns the match of the first of its alternatives, in
\* the stored order, whose sequence matches, whatever the later ones would
\* consume, and Fail only when none matches
OrderedChoice ==
  NonTerminalReturned =>
    IF Winners = {} THEN ret = Pair(None, None)
    ELSE LET first_k == SetMin(Winners)
         IN  /\ ret.rem = SequenceOf(first_k).rem
             /\ ret.tree[1].items =
                  <<Leaf(from.atom)>> \o SequenceOf(first_k).tree[1].items

\* two alternatives match, the later one consumes more, the first is returned
OrderedChoiceWitness ==
  /\ NonTerminalReturned
  /\ ~from.hit
  /\ Cardinality(Winners) = 2
  /\ Len(SequenceOf(2).rem[1]) < Len(SequenceOf(1).rem[1])
  /\ ret.rem = SequenceOf(1).rem

IsFailOrMatch(r) ==
  \/ r.tree = None /\ r.rem = None
  \/ /\ r.tree # None
     /\ r.rem # None
     /\ \A i \in 1..Len(r.rem[1]) : r.rem[1][i] \in STRING

\* C2: every value returned, by parse and by the calls inside it, is either
\* (None, None) or a tree together with a remainder that is a string
FailIffRemainderNone ==
  /\ mode = "ret" => IsFailOrMatch(ret)
  /\ result # None => IsFailOrMatch(result[1])
  /\ \A key \in DOMAIN cache : IsFailOrMatch(cache[key].val)

\* parse returned Fail although atoms inside it had matched
FailIffRemainderNoneWitness ==
  /\ mode = "done"
  /\ result = Some(Pair(None, None))
  /\ \E key \in DOMAIN runs : runs[key].val # None /\ runs[key].val[1].rem # None

\* the children are the trees of the atoms of the alternative alt, each
\* matched where the one before it stopped, and the last stops at rem
RECURSIVE Threaded(_, _, _, _, _)
Threaded(alt, items, i, t, rem) ==
  IF i > Len(alt) THEN t = rem
  ELSE LET r == parse_atom(G, alt[i], t)
       IN  /\ r.rem # None
           /\ items[i + 1] = r.tree[1]
           /\ Threaded(alt, items, i + 1, r.rem[1], rem)

\* the nesting levels of a tree of "elements => value , elements | value"
RECURSIVE Levels(_)
Levels(tree) ==
  IF Len(tree.items) = 4 THEN 1 + Levels(tree.items[4]) ELSE 1

Commas(s) == Cardinality({i \in 1..Len(s) : s[i] = ","})

\* C3: the tree of a non-terminal is the symbol followed by one tree per atom
\* of the winning alternative, in order, and nothing else; the right-
\* recursive list rule nests one level per item
TreeShape ==
  (NonTerminalReturned /\ ret.rem # None) =>
    LET items == ret.tree[1].items
        alts == G[from.atom]
    IN  /\ ret.tree[1].kind = "list"
        /\ items[1] = [kind |-> "str", str |-> from.atom, items |-> <<>>]
        /\ \E k \in 1..Len(alts) :
             /\ Len(items) = 1 + Len(alts[k])
             /\ Threaded(alts[k], items, 1, from.text, ret.rem[1])
        /\ (description = DescList /\ from.atom = elements) =>
             Levels(ret.tree[1]) =
               1 + Commas(SubSeq(from.text, 1,
                                 Len(from.text) - Len(ret.rem[1])))

\* a list of three items is parsed into three nested levels, after the
\* first alternative had matched atoms and failed
TreeShapeWitness ==
  /\ NonTerminalReturned
  /\ description = DescList
  /\ from.atom = elements
  /\ from.text = <<"a", ",", "a", ",", "a">>
  /\ ret.rem = Some(<<>>)
  /\ Levels(ret.tree[1]) = 3

\* how much of the text the whitespace pattern alone matches
SkippedWs(t) == ReMatch(G[WsKey], t)[1].end

\* the terminal's pattern alone, in its group
AtomAlone(atom, t) == ReMatch(<<"(">> \o atom \o <<")">>, t)

\* C4 as stated: the leading whitespace is skipped whole, is no part of the
\* captured text, and the remainder is the text less both
WhitespaceNeverCaptured ==
  (TerminalReturned /\ ret.rem # None) =>
    from.text = SubSeq(from.text, 1, SkippedWs(from.text))
                  \o ret.tree[1].str \o ret.rem[1]

\* C4, amended: when the terminal matches right after all the leading
\* whitespace, that match is the result: the whitespace is skipped and is no
\* part of the captured text.  When it does not, the pattern gives whitespace
\* back: the match fails, or the captured text begins with whitespace that
\* the whitespace pattern did not keep.  In every case the text is what was
\* skipped, then the captured text, then the remainder.
WhitespaceSkipped ==
  TerminalReturned =>
    LET t == from.text
        L == SkippedWs(t)
        rest == SubSeq(t, L + 1, Len(t))
        alone == AtomAlone(from.atom, rest)
    IN  IF alone # None
        THEN /\ ret.tree = Some([kind |-> "str", items |-> <<>>,
                                 str |-> SubSeq(rest, 1, alone[1].ge)])
             /\ ret.rem = Some(SubSeq(rest, alone[1].end + 1, Len(rest)))
        ELSE \/ ret = Pair(None, None)
             \/ \E w \in 0..(L - 1) :
                  /\ t = SubSeq(t, 1, w) \o ret.tree[1].str \o ret.rem[1]
                  /\ ret.tree[1].str # <<>>
                  /\ IsSpace(ret.tree[1].str[1])

\* a terminal matched after whitespace that it did not capture
WhitespaceSkippedWitness ==
  /\ TerminalReturned
  /\ ~from.hit
  /\ SkippedWs(from.text) > 0
  /\ ret.rem # None
  /\ ret.tree[1].str # <<>>
  /\ ~IsSpace(ret.tree[1].str[1])

\* C5: what parse_atom returns with the cache, from its body or from the
\* cache, is what parse_atom without any cache returns, and so for parse
MemoTransparent ==
  /\ AtomReturned => ret = parse_atom(G, from.atom, from.text)
  /\ mode = "done" => result = Some(parse_atom(G, start, text))

\* a match of a non-terminal was answered from the cache
MemoTransparentWitness ==
  /\ NonTerminalReturned
  /\ from.hit
  /\ ret.rem # None

SameAsFirst ==
  first # None /\ first[1].G = G /\ first[1].start = start /\ first[1].text = text

\* C6: a parse call reads no cache entry that another call wrote, holds none
\* either, and returns what the first call returned when that had the same
\* grammar, start symbol and text
CallIsolation ==
  /\ (AtomReturned /\ from.hit) => from.epoch = calls
  /\ \A key \in DOMAIN cache : cache[key].epoch = calls
  /\ (mode = "done" /\ SameAsFirst) => result = Some(first[1].ret)

\* a later call with the start symbol and text of the first, on another
\* grammar, returned something else than the first
CallIsolationWitness ==
  /\ mode = "done"
  /\ calls > 1
  /\ first[1].G # G
  /\ first[1].start = start
  /\ first[1].text = text
  /\ result # Some(first[1].ret)

QuoteA == <<"\"", "a", "\"">>
QuoteB == <<"\"", "b", "\"">>
QuotedDone == mode = "done" /\ description = DescQuoted /\ start = value

\* C7 as stated: the texts a and ab match, c does not
SpecExamples ==
  QuotedDone =>
    /\ text = <<"a">> =>
         result = Some(Pair(Some(PyList(<<Leaf(value), Leaf(<<"a">>)>>)),
                            Some(<<>>)))
    /\ text = <<"a", "b">> =>
         result = Some(Pair(Some(PyList(<<Leaf(value), Leaf(<<"a">>)>>)),
                            Some(<<"b">>)))
    /\ text = <<"c">> => result = Some(Pair(None, None))

\* C7, amended: the terminals of the grammar are the patterns "a" and "b"
\* with their quotes; the texts "a" and "a"b (with the quotes) match, with
\* the quoted token as the tree's leaf, and a, ab and c do not
QuotedExamples ==
  QuotedDone =>
    /\ G = (WsKey :> WsDefault @@ value :> << <<QuoteA>>, <<QuoteB>> >>)
    /\ text = QuoteA =>
         result = Some(Pair(Some(PyList(<<Leaf(value), Leaf(QuoteA)>>)),
                            Some(<<>>)))
    /\ text = QuoteA \o <<"b">> =>
         result = Some(Pair(Some(PyList(<<Leaf(value), Leaf(QuoteA)>>)),
                            Some(<<"b">>)))
    /\ text \in {<<"a">>, <<"a", "b">>, <<"c">>} =>
         result = Some(Pair(None, None))

QuotedExamplesWitness ==
  /\ QuotedDone
  /\ text = QuoteA \o <<"b">>
  /\ result[1].rem = Some(<<"b">>)

\* C8: the grammar of a description with a blank line inserted is the
\* grammar of the description, and grammar() does not raise
BlankLinesIgnored ==
  compiled # None => compiled[1] = grammar(base, compiled[1].G[WsKey])

\* C9 as stated: no key has its body run twice in one parse call
AtMostOnceAlways ==
  \A key \in DOMAIN runs : runs[key].n <= 1

\* C9, amended: the body runs at most once for a key, unless the key is
\* requested again while its own body is still running (the descent that
\* does not return); a request that finds the key in the cache gets the
\* result the body computed
AtMostOnce ==
  /\ \A key \in DOMAIN runs : runs[key].n > 1 => Pending(key)
  /\ (AtomReturned /\ from.hit) =>
       /\ <<from.atom, from.text>> \in DOMAIN runs
       /\ runs[<<from.atom, from.text>>] = [n |-> 1, val |-> Some(ret)]

\* a failure was answered from the cache
AtMostOnceWitness ==
  /\ AtomReturned
  /\ from.hit
  /\ ret.rem = None
  /\ runs[<<from.atom, from.text>>].n = 1

\* the atoms of symbol n that parse_atom can reach at the text it was called
\* with: the first atom of an alternative and, when not strict, also an atom
\* all of whose predecessors are in the set empty
LeftAtoms(n, strict, empty) ==
  UNION { {G[n][k][i] :
             i \in {j \in 1..Len(G[n][k]) :
                      \A h \in 1..(j - 1) : ~strict /\ G[n][k][h] \in empty}} :
          k \in 1..Len(G[n]) }

AllAtoms ==
  UNION {UNION {{G[n][k][i] : i \in 1..Len(G[n][k])} : k \in 1..Len(G[n])} :
         n \in Symbols}

\* the terminals that match without consuming a character, and the
\* non-terminals with an alternative made of such atoms only
RECURSIVE EmptyAtoms(_)
EmptyAtoms(round) ==
  IF round = 0
  THEN {a \in AllAtoms : a \notin DOMAIN G /\ AtomAlone(a, <<>>) # None}
  ELSE LET before == EmptyAtoms(round - 1)
       IN  before \cup
             {n \in Symbols :
                \E k \in 1..Len(G[n]) :
                  \A i \in 1..Len(G[n][k]) : G[n][k][i] \in before}

\* the symbols reached from the set by following LeftAtoms
RECURSIVE LeftReach(_, _, _)
LeftReach(set, strict, round) ==
  IF round = 0 THEN set
  ELSE LET empty == IF strict THEN {} ELSE EmptyAtoms(Cardinality(Symbols))
           step == UNION {LeftAtoms(n, strict, empty) : n \in set} \cap Symbols
       IN  LeftReach(set \cup step, strict, round - 1)

\* some symbol reaches itself
SelfReaching(strict) ==
  \E n \in Symbols :
    LET empty == IF strict THEN {} ELSE EmptyAtoms(Cardinality(Symbols))
        step == LeftAtoms(n, strict, empty) \cap Symbols
    IN  n \in LeftReach(step, strict, Cardinality(Symbols))

\* left recursion as C10 has it: through the first atom of an alternative
LeftRecursive == SelfReaching(TRUE)
\* and through an atom that follows atoms which can match nothing
EmptyLeftRecursive == SelfReaching(FALSE)

\* C10 as stated: only a grammar with a rule that is left-recursive through
\* first atoms has a parse that recurses without end
OnlyLeftRecursionDiverges ==
  mode = "diverge" => LeftRecursive

Parsing == mode \in {"call", "alt", "seq", "ret"}

\* C10, amended: a parse that was called returns or recurses without end,
\* and it recurses without end only when a symbol of the grammar reaches
\* itself through the first atom of an alternative or through an atom whose
\* predecessors in the alternative can all match without consuming text;
\* with no such symbol the pending calls of parse_atom and parse_sequence
\* are no more than twice the number of symbols times the number of
\* suffixes of the text
Terminates ==
  /\ [](mode = "diverge" => EmptyLeftRecursive)
  /\ []((Parsing /\ Len(stack) > 2 * Cardinality(Symbols) * (Len(text) + 1))
          => EmptyLeftRecursive)
  /\ Parsing ~> (mode \in {"done", "diverge"})

\* a right-recursive rule called itself, on the empty rest of the text, and
\* parse returned
TerminatesWitness ==
  /\ mode = "done"
  /\ description = DescLongest
  /\ start = <<"E">>
  /\ text = <<"a", "b">>
  /\ <<start, <<>>>> \in DOMAIN runs
  /\ result[1].rem = Some(<<"b">>)
  /\ ~EmptyLeftRecursive

====
